---------------------------- MODULE Spec2Model ----------------------------
(***************************************************************************)
(* Directorizer (src/main.cpp): a dialog that scans a directory for files  *)
(* named "bf2savefile*", ranks them with a number-aware comparator, copies *)
(* the chosen one over <directory>/bf2savefile.sav and remembers the last  *)
(* directory, selection and pin state in config.txt beside the executable. *)
(*                                                                         *)
(* Names and texts are sequences of character codes (wchar_t values);      *)
(* config.txt is a sequence of bytes.                                      *)
(***************************************************************************)
EXTENDS Integers, Sequences, FiniteSets, TLC

VARIABLES
    cx, cy,      \* the two names handed to NaturalLess
    cres,        \* [done, ab, ba]: once done, ab is NaturalLess(cx, cy) and ba NaturalLess(cy, cx)
    fs,          \* the file system: path text -> [type, open, entries]
    editDir,     \* text of IDC_EDIT_DIR
    items,       \* strings of IDC_COMBO_FILES, in list order
    curSel,      \* CB_GETCURSEL + 1: 0 is "no selection" (CB_ERR)
    files,       \* SpecScan: the vector `files` of PopulateFileDropdown before std::sort
    scanned,     \* SpecScan: PopulateFileDropdown has run
    running,     \* the dialog is open
    pinCheck,    \* check state of IDC_PIN
    topMost,     \* the window is HWND_TOPMOST
    status,      \* text of IDC_STATUS
    timerSet,    \* timer 1 is armed
    last,        \* history: what the latest event was: "init-loaded", "init-defaults",
                 \* "confirm", or "other"
    saved        \* history: [st, dir, file, pin], the state of the latest confirm event
                 \* that wrote config.txt; st is "none" before any, "clean" after it,
                 \* "changed" once a file of a directory was created or deleted since

cmpVars == <<cx, cy, cres>>
scanVars == <<files, scanned>>
dlgVars == <<fs, editDir, items, curSel, running, pinCheck, topMost, status, timerSet, last, saved>>
vars == <<cx, cy, cres, files, scanned,
          fs, editDir, items, curSel, running, pinCheck, topMost, status, timerSet, last, saved>>

(***************************************************************************)
(* Bounds of the model.                                                    *)
(***************************************************************************)
\* longest name drawn over Alphabet for the comparator
MaxLen == 3

\* the function f with every value worked out, so that TLC computes each once
Table(f) == f @@ <<>>

(***************************************************************************)
(* Characters.                                                             *)
(***************************************************************************)
\* iswdigit: L'0' .. L'9'
iswdigit(c) == c \in 48..57

\* towlower on the characters of the model: L'A'..L'Z' map to L'a'..L'z'
towlower(c) == IF c \in 65..90 THEN c + 32 ELSE c

\* IsSep: space, underscore, hyphen, period
IsSep(c) == c \in {32, 95, 45, 46}

(***************************************************************************)
(* The 64-bit accumulator of the digit-run branch (unsigned long long),    *)
(* kept as four 16-bit limbs, most significant first, so that va*10 + d    *)
(* wraps modulo 2^64 exactly as the code's arithmetic does.                *)
(***************************************************************************)
Limb == 65536

AccZero == <<0, 0, 0, 0>>

\* va = va*10 + d  (mod 2^64)
AccMulAdd(va, d) ==
    LET t4 == va[4] * 10 + d
        t3 == va[3] * 10 + (t4 \div Limb)
        t2 == va[2] * 10 + (t3 \div Limb)
        t1 == va[1] * 10 + (t2 \div Limb)
    IN  <<t1 % Limb, t2 % Limb, t3 % Limb, t4 % Limb>>

\* va < vb on two accumulators
AccLess(va, vb) ==
    \E k \in 1..4 : /\ va[k] < vb[k]
                    /\ \A m \in 1..(k-1) : va[m] = vb[m]

(***************************************************************************)
(* NaturalLess.  Indices are 1-based here: index i stands for the code's   *)
(* i-1, so "i < na" reads i <= Len(a), and na - i is unchanged as a        *)
(* difference of two cursors counted the same way.                         *)
(***************************************************************************)
RECURSIVE SkipSep(_, _)
\* while (i < na && IsSep(a[i])) ++i;
SkipSep(s, i) ==
    IF i <= Len(s) /\ IsSep(s[i]) THEN SkipSep(s, i + 1) ELSE i

RECURSIVE DigitRunEnd(_, _)
\* the index at which the loop of line 63 stops: the first non-digit at or after i
DigitRunEnd(s, i) ==
    IF i <= Len(s) /\ iswdigit(s[i]) THEN DigitRunEnd(s, i + 1) ELSE i

RECURSIVE DigitRunValue(_, _, _, _)
\* the accumulator after the characters s[i .. e-1]
DigitRunValue(s, i, e, va) ==
    IF i >= e THEN va
    ELSE DigitRunValue(s, i + 1, e, AccMulAdd(va, s[i] - 48))

\* a mutant of TailLess: <= for <
TailLessOrEqual(na, i, nb, j) == (na - i) <= (nb - j)

\* return (na - i) < (nb - j);
TailLess(na, i, nb, j) == (na - i) < (nb - j)

RECURSIVE NaturalLoop(_, _, _, _)
NaturalLoop(a, b, i, j) ==
    LET na == Len(a)
        nb == Len(b)
    IN
    IF ~(i <= na /\ j <= nb) THEN TailLess(na, i, nb, j)
    ELSE
      LET i2 == SkipSep(a, i)
          j2 == SkipSep(b, j)
      IN
      IF i2 > na \/ j2 > nb THEN TailLess(na, i2, nb, j2)
      ELSE IF iswdigit(a[i2]) /\ iswdigit(b[j2]) THEN
        LET ia == DigitRunEnd(a, i2)
            jb == DigitRunEnd(b, j2)
            va == DigitRunValue(a, i2, ia, AccZero)
            vb == DigitRunValue(b, j2, jb, AccZero)
            lena == ia - i2
            lenb == jb - j2
        IN
        IF va # vb THEN AccLess(va, vb)
        ELSE IF lena # lenb THEN lena < lenb
        ELSE NaturalLoop(a, b, ia, jb)
      ELSE
        LET ca == towlower(a[i2])
            cb == towlower(b[j2])
        IN
        IF ca # cb THEN ca < cb
        ELSE NaturalLoop(a, b, i2 + 1, j2 + 1)

NaturalLess(a, b) == NaturalLoop(a, b, 1, 1)

(***************************************************************************)
(* The file system.  A path text that is not in DOMAIN fs names nothing.   *)
(* A node is a regular file or a directory; a directory maps each name of  *)
(* its universe to an entry, of kind "none" when no such entry exists.     *)
(* An entry of kind "err" is one whose status query fails (a link whose    *)
(* target cannot be examined): directory_entry::is_regular_file(ec) then   *)
(* returns false and sets ec.                                              *)
(***************************************************************************)
NoEntry == [kind |-> "none", data |-> <<>>]

RegularFile(d) == [kind |-> "file", data |-> d]

SubDirectory == [kind |-> "dir", data |-> <<>>]

BrokenEntry == [kind |-> "err", data |-> <<>>]

Directory(open, entries) == [type |-> "dir", open |-> open, entries |-> entries]

FileNode == [type |-> "file", open |-> "ok", entries |-> <<>>]

\* fs::exists(folder, ec)
Exists(fsys, path) == path \in DOMAIN fsys

\* fs::is_directory(folder, ec)
IsDirectory(fsys, path) == Exists(fsys, path) /\ fsys[path].type = "dir"

\* "A", the current directory and the directory of the executable
DirA == <<65>>

\* a second directory, named with U+00E9 so that its UTF-8 form differs from its text
DirB == <<233>>

\* "M", a path that names nothing
NoSuchDir == <<77>>

\* "bf2savefile"
Prefix == <<98,102,50,115,97,118,101,102,105,108,101>>

\* "config.txt"
CfgName == <<99,111,110,102,105,103,46,116,120,116>>

\* "bf2savefile.sav", the fixed target
SavName == <<98,102,50,115,97,118,101,102,105,108,101,46,115,97,118>>

\* "bf2savefile_1"
NameU1 == <<98,102,50,115,97,118,101,102,105,108,101,95,49>>

\* "bf2savefile-1": compares Equal to NameU1
NameH1 == <<98,102,50,115,97,118,101,102,105,108,101,45,49>>

\* "Bf2savefile_2": the prefix in another case
NameCase == <<66,102,50,115,97,118,101,102,105,108,101,95,50>>

\* "xbf2savefile": the prefix, not at position 0
NameInner == <<120,98,102,50,115,97,118,101,102,105,108,101>>

\* "bf2savefile_d", a subdirectory
NameSubDir == <<98,102,50,115,97,118,101,102,105,108,101,95,100>>

\* "bf2savefile_l", an entry whose status query fails
NameBroken == <<98,102,50,115,97,118,101,102,105,108,101,95,108>>

(***************************************************************************)
(* The comparator's inputs: every name of at most MaxLen characters over   *)
(* a lower-case letter, its upper-case form, two digits and a separator,   *)
(* and two digit runs at the edge of the 64-bit accumulator.               *)
(***************************************************************************)
\* 'a', 'A', '0', '1', '_'
Alphabet == {97, 65, 48, 49, 95}

\* "18446744073709551616", the digits of 2^64
Run2Pow64 ==
    <<49,56,52,52,54,55,52,52,48,55,51,55,48,57,53,53,49,54,49,54>>

\* "18446744073709551615", the digits of 2^64 - 1
RunMax64 ==
    <<49,56,52,52,54,55,52,52,48,55,51,55,48,57,53,53,49,54,49,53>>

ShortNames == UNION {[1..n -> Alphabet] : n \in 0..MaxLen}

FileNames ==
    {SavName, NameU1, NameH1, NameCase, NameInner, NameSubDir, NameBroken}

Names == ShortNames \cup {Run2Pow64, RunMax64}

\* NaturalLess tabulated over the file names of the model
LessTab == Table([x \in FileNames |-> Table([y \in FileNames |-> NaturalLess(x, y)])])

(***************************************************************************)
(* PopulateFileDropdown.                                                   *)
(***************************************************************************)
\* name.rfind(L"bf2savefile", 0) == 0
HasPrefix(name) ==
    /\ Len(name) >= Len(Prefix)
    /\ SubSeq(name, 1, Len(Prefix)) = Prefix

RECURSIVE PermSeqs(_)
\* every order in which the members of S can be listed
PermSeqs(S) ==
    IF S = {} THEN {<<>>}
    ELSE UNION {{<<x>> \o p : p \in PermSeqs(S \ {x})} : x \in S}

\* the entry names of the dialog's directories
DlgNames == {SavName, NameU1, NameH1, CfgName}

\* PermSeqs tabulated over the sets of entry names of the model
OrdersTab == Table([S \in (SUBSET FileNames) \cup (SUBSET DlgNames) |-> PermSeqs(S)])

\* the names a directory node holds
Present(entries) == {n \in DOMAIN entries : entries[n].kind # "none"}

RECURSIVE ListLoop(_, _, _, _, _)
\* the range-for over the directory: order is the listing order, ec the shared
\* error_code, acc the vector `files` so far
ListLoop(entries, order, k, ec, acc) ==
    IF k > Len(order) THEN acc
    ELSE IF ec THEN acc                                   \* if (ec) break;
    ELSE LET name == order[k]
             kind == entries[name].kind
         IN  IF kind = "file"                             \* is_regular_file(ec): true, ec cleared
               THEN ListLoop(entries, order, k + 1, FALSE,
                             IF HasPrefix(name) THEN Append(acc, name) ELSE acc)
             ELSE IF kind = "err"                         \* false, ec set
               THEN ListLoop(entries, order, k + 1, TRUE, acc)
             ELSE ListLoop(entries, order, k + 1, FALSE, acc)

\* the vectors `files` the loop can build, one per listing order of the directory
ListOutcomes(fsys, folder) ==
    IF ~Exists(fsys, folder) \/ ~IsDirectory(fsys, folder) THEN {<<>>}
    ELSE IF fsys[folder].open # "ok" THEN {<<>>}          \* the iterator is the end iterator
    ELSE {ListLoop(fsys[folder].entries, order, 1, FALSE, <<>>) :
             order \in OrdersTab[Present(fsys[folder].entries)]}

Range(q) == {q[k] : k \in 1..Len(q)}

\* no later element is NaturalLess than an earlier one
IsSorted(q) ==
    \A i \in 1..Len(q) : \A j \in (i + 1)..Len(q) : ~LessTab[q[j]][q[i]]

\* std::sort(files.begin(), files.end(), NaturalLess): some sorted permutation of
\* the vector; which one, among elements that compare equivalent, is unspecified
SortOutcomes(q) == {p \in OrdersTab[Range(q)] : IsSorted(p)}

\* each [files, items] a call can produce
ScanResults(fsys, folder) ==
    UNION {{[files |-> q, items |-> p] : p \in SortOutcomes(q)} :
              q \in ListOutcomes(fsys, folder)}

\* CB_SETCURSEL 0 when the list is not empty; CB_RESETCONTENT leaves no selection
FirstSel(list) == IF list # <<>> THEN 1 ELSE 0

(***************************************************************************)
(* SpecScan: one scan of a drawn directory.                                *)
(***************************************************************************)
ScanUniverse == FileNames

KindOf(name) ==
    IF name = NameSubDir THEN SubDirectory
    ELSE IF name = NameBroken THEN BrokenEntry
    ELSE RegularFile(<<1>>)

ScanNodes ==
    {FileNode, Directory("denied", <<>>), Directory("error", <<>>)}
    \cup {Directory("ok", [n \in ScanUniverse |-> IF n \in S THEN KindOf(n) ELSE NoEntry]) :
             S \in SUBSET ScanUniverse}

CmpIdle ==
    /\ cx = <<>>
    /\ cy = <<>>
    /\ cres = [done |-> FALSE, ab |-> FALSE, ba |-> FALSE]

\* the controls before WM_INITDIALOG, and after EndDialog
DialogClosed ==
    /\ running = FALSE
    /\ pinCheck = FALSE
    /\ topMost = FALSE
    /\ status = ""
    /\ timerSet = FALSE

NothingSaved == [st |-> "none", dir |-> <<>>, file |-> <<>>, pin |-> FALSE]

ScanInit ==
    /\ CmpIdle
    /\ \E node \in ScanNodes : fs = (DirA :> node)
    /\ editDir \in {DirA, NoSuchDir}
    /\ items = <<>>
    /\ curSel = 0
    /\ files = <<>>
    /\ scanned = FALSE
    /\ DialogClosed
    /\ last = "other"
    /\ saved = NothingSaved

ScanDirectory ==
    /\ ~scanned
    /\ \E r \in ScanResults(fs, editDir) :
          /\ files' = r.files
          /\ items' = r.items
          /\ curSel' = FirstSel(r.items)
    /\ scanned' = TRUE
    /\ UNCHANGED <<fs, editDir, cmpVars>>
    /\ UNCHANGED <<running, pinCheck, topMost, status, timerSet, last, saved>>

ScanNext == ScanDirectory

SpecScan == ScanInit /\ [][ScanNext]_vars

(***************************************************************************)
(* SpecCmp: NaturalLess applied to a drawn pair of names, both ways.       *)
(***************************************************************************)
CmpInit ==
    /\ cx \in Names
    /\ cy \in Names
    /\ cres = [done |-> FALSE, ab |-> FALSE, ba |-> FALSE]
    /\ fs = <<>>
    /\ editDir = <<>>
    /\ items = <<>>
    /\ curSel = 0
    /\ files = <<>>
    /\ scanned = FALSE
    /\ DialogClosed
    /\ last = "other"
    /\ saved = NothingSaved

Compare ==
    /\ ~cres.done
    /\ cres' = [done |-> TRUE, ab |-> NaturalLess(cx, cy), ba |-> NaturalLess(cy, cx)]
    /\ UNCHANGED <<cx, cy, scanVars, dlgVars>>

CmpNext == Compare

SpecCmp == CmpInit /\ [][CmpNext]_vars

(***************************************************************************)
(* Text conversions of the config file.                                    *)
(***************************************************************************)
\* the UTF-8 bytes of one character of the Basic Multilingual Plane
Utf8Char(c) ==
    IF c < 128 THEN <<c>>
    ELSE IF c < 2048 THEN <<192 + (c \div 64), 128 + (c % 64)>>
    ELSE <<224 + (c \div 4096), 128 + ((c \div 64) % 64), 128 + (c % 64)>>

RECURSIVE ToUtf8(_)
\* WideCharToMultiByte(CP_UTF8, ...)
ToUtf8(s) == IF s = <<>> THEN <<>> ELSE Utf8Char(Head(s)) \o ToUtf8(Tail(s))

IsCont(b, k) == k <= Len(b) /\ b[k] \in 128..191

RECURSIVE FromUtf8At(_, _)
\* MultiByteToWideChar(CP_UTF8, ...): a byte that starts no well-formed sequence
\* decodes to U+FFFD
FromUtf8At(b, k) ==
    IF k > Len(b) THEN <<>>
    ELSE IF b[k] < 128 THEN <<b[k]>> \o FromUtf8At(b, k + 1)
    ELSE IF b[k] \in 192..223 /\ IsCont(b, k + 1)
      THEN <<(b[k] - 192) * 64 + (b[k + 1] - 128)>> \o FromUtf8At(b, k + 2)
    ELSE IF b[k] \in 224..239 /\ IsCont(b, k + 1) /\ IsCont(b, k + 2)
      THEN <<(b[k] - 224) * 4096 + (b[k + 1] - 128) * 64 + (b[k + 2] - 128)>>
           \o FromUtf8At(b, k + 3)
    ELSE <<65533>> \o FromUtf8At(b, k + 1)

FromUtf8(b) == FromUtf8At(b, 1)

\* "directory="
KeyDirectory == <<100,105,114,101,99,116,111,114,121,61>>

\* "file="
KeyFile == <<102,105,108,101,61>>

\* "pin="
KeyPin == <<112,105,110,61>>

\* a mutant of ConfigText: the pin line is not written
ConfigTextNoPin(folder, file, pin) ==
    KeyDirectory \o ToUtf8(folder) \o <<10>> \o KeyFile \o ToUtf8(file) \o <<10>>

\* the bytes SaveConfig writes
ConfigText(folder, file, pin) ==
    KeyDirectory \o ToUtf8(folder) \o <<10>>
    \o KeyFile \o ToUtf8(file) \o <<10>>
    \o KeyPin \o (IF pin THEN <<49>> ELSE <<48>>) \o <<10>>

RECURSIVE GetLines(_, _, _)
\* the lines std::getline yields from position k on; cur is the line being read
GetLines(b, k, cur) ==
    IF k > Len(b) THEN (IF cur = <<>> THEN <<>> ELSE <<cur>>)
    ELSE IF b[k] = 10 THEN <<cur>> \o GetLines(b, k + 1, <<>>)
    ELSE GetLines(b, k + 1, Append(cur, b[k]))

\* line.rfind(key, 0) == 0
LineHasKey(line, key) ==
    Len(line) >= Len(key) /\ SubSeq(line, 1, Len(key)) = key

\* a mutant of Substr: the value starts one character late
SubstrLate(line, n) == SubSeq(line, n + 2, Len(line))

\* line.substr(n)
Substr(line, n) == SubSeq(line, n + 1, Len(line))

RECURSIVE ParseLines(_, _, _)
\* the while loop of LoadConfig over the lines, from line k on
ParseLines(lines, k, acc) ==
    IF k > Len(lines) THEN acc
    ELSE LET line == lines[k] IN
         ParseLines(lines, k + 1,
            IF LineHasKey(line, KeyDirectory)
              THEN [acc EXCEPT !.folder = FromUtf8(Substr(line, 10))]
            ELSE IF LineHasKey(line, KeyFile)
              THEN [acc EXCEPT !.file = FromUtf8(Substr(line, 5))]
            ELSE IF LineHasKey(line, KeyPin)
              THEN [acc EXCEPT !.pin = (Len(line) > 4 /\ line[5] = 49)]
            ELSE acc)

\* folder, file and pin as LoadConfig reads them from the bytes of config.txt
ParseConfig(b) ==
    ParseLines(GetLines(b, 1, <<>>), 1, [folder |-> <<>>, file |-> <<>>, pin |-> FALSE])

(***************************************************************************)
(* The dialog.                                                             *)
(***************************************************************************)
\* GetExeDir()
ExeDir == DirA

\* GetCurrentDirectoryW
Cwd == DirA

\* the entry of config.txt
CfgEntry(fsys) == fsys[ExeDir].entries[CfgName]

\* the directory fs::path(folder) / name lies in: a relative path is taken
\* from the current directory
BaseDir(folder) == IF folder = <<>> THEN Cwd ELSE folder

\* the entry fs::path(folder) / name names
EntryAt(fsys, folder, name) ==
    IF IsDirectory(fsys, BaseDir(folder)) /\ name \in DOMAIN fsys[BaseDir(folder)].entries
      THEN fsys[BaseDir(folder)].entries[name]
      ELSE NoEntry

\* selectedFile of the IDOK branch: CB_GETLBTEXT of the current selection
Selected == IF curSel >= 1 THEN items[curSel] ELSE <<>>

\* whether item begins with text, ignoring case
BeginsNoCase(item, text) ==
    /\ Len(item) >= Len(text)
    /\ \A k \in 1..Len(text) : towlower(item[k]) = towlower(text[k])

\* CB_SELECTSTRING from the top of the list: the first item that begins with
\* text becomes the selection; with none, the selection stays
SelectString(list, sel, text) ==
    LET hits == {k \in 1..Len(list) : BeginsNoCase(list[k], text)}
    IN  IF hits = {} THEN sel
        ELSE CHOOSE k \in hits : \A m \in hits : k <= m

\* fs::copy_file(src, dest, overwrite_existing, ec): the file system afterwards
\* and whether ec is set.  ioFails is an error of the environment (destination
\* locked, no permission), met before anything is written.
CopyFile(fsys, folder, name, ioFails) ==
    LET src == EntryAt(fsys, folder, name)
        dest == EntryAt(fsys, folder, SavName)
    IN  IF src.kind # "file" THEN [fs |-> fsys, ec |-> TRUE]
        ELSE IF dest.kind # "none" /\ name = SavName       \* equivalent(from, to)
          THEN [fs |-> fsys, ec |-> TRUE]
        ELSE IF dest.kind \notin {"none", "file"} THEN [fs |-> fsys, ec |-> TRUE]
        ELSE IF ioFails THEN [fs |-> fsys, ec |-> TRUE]
        ELSE [fs |-> [fsys EXCEPT ![BaseDir(folder)].entries[SavName] = RegularFile(src.data)],
              ec |-> FALSE]

\* SaveConfig: opens is whether the ofstream could open config.txt; when it
\* could not, every << does nothing and the function returns as usual
SaveConfig(fsys, folder, file, pin, opens) ==
    IF opens
      THEN [fsys EXCEPT ![ExeDir].entries[CfgName] = RegularFile(ConfigText(folder, file, pin))]
      ELSE fsys

FolderTexts == {<<>>, DirA, DirB, NoSuchDir}

\* the files of the current directory that come and go
Movable == {NameU1}

\* "pin=1\nx=y\n": a config.txt written by hand
HandWritten == <<112,105,110,61,49,10,120,61,121,10>>

DlgInit ==
    /\ CmpIdle
    /\ files = <<>>
    /\ scanned = FALSE
    /\ \E cfg \in {NoEntry, RegularFile(HandWritten)} :
          fs = (DirA :> Directory("ok", [n \in DlgNames |->
                          IF n = NameU1 THEN RegularFile(<<1>>)
                          ELSE IF n = NameH1 THEN RegularFile(<<2>>)
                          ELSE IF n = SavName THEN RegularFile(<<3>>)
                          ELSE cfg]))
            @@ (DirB :> Directory("ok", [n \in DlgNames |->
                          IF n = NameH1 THEN RegularFile(<<2>>) ELSE NoEntry]))
    /\ editDir = <<>>
    /\ items = <<>>
    /\ curSel = 0
    /\ DialogClosed
    /\ last = "other"
    /\ saved = NothingSaved

\* PopulateFileDropdown(hCombo, folder), on the combo box
Populate(folder) ==
    \E r \in ScanResults(fs, folder) :
        /\ items' = r.items
        /\ curSel' = FirstSel(r.items)

\* WM_INITDIALOG, LoadConfig included; reads is whether the ifstream could open
\* config.txt when it exists
InitDialog(reads) ==
    /\ ~running
    /\ running' = TRUE
    /\ status' = ""
    /\ timerSet' = FALSE
    /\ LET cfg == CfgEntry(fs) IN
       IF cfg.kind # "file" \/ ~reads
         THEN /\ editDir' = Cwd
              /\ Populate(Cwd)
              /\ pinCheck' = FALSE
              /\ topMost' = FALSE
              /\ last' = "init-defaults"
         ELSE LET p == ParseConfig(cfg.data)
                  folder == IF p.folder # <<>> THEN p.folder ELSE Cwd
              IN  /\ editDir' = folder
                  /\ \E r \in ScanResults(fs, folder) :
                        /\ items' = r.items
                        /\ curSel' = IF p.file # <<>>
                                       THEN SelectString(r.items, FirstSel(r.items), p.file)
                                       ELSE FirstSel(r.items)
                  /\ pinCheck' = p.pin
                  /\ topMost' = p.pin
                  /\ last' = "init-loaded"
    /\ UNCHANGED <<fs, saved, cmpVars, scanVars>>

\* IDC_EDIT_DIR, EN_CHANGE: the user has made the text t
EditChange(t) ==
    /\ running
    /\ editDir' = t
    /\ Populate(t)
    /\ last' = "other"
    /\ UNCHANGED <<fs, running, pinCheck, topMost, status, timerSet, saved, cmpVars, scanVars>>

\* IDC_BUTTON_BROWSE, PickFolder returning true with chosen
BrowsePicked(chosen) ==
    /\ running
    /\ editDir' = chosen
    /\ Populate(chosen)
    /\ last' = "other"
    /\ UNCHANGED <<fs, running, pinCheck, topMost, status, timerSet, saved, cmpVars, scanVars>>

\* IDC_BUTTON_BROWSE, PickFolder returning false (cancelled, or no dialog)
BrowseCancelled ==
    /\ running
    /\ last' = "other"
    /\ UNCHANGED <<fs, editDir, items, curSel, running, pinCheck, topMost, status, timerSet,
                   saved, cmpVars, scanVars>>

\* the user picks item k of the combo box
SelectItem(k) ==
    /\ running
    /\ k \in 1..Len(items)
    /\ curSel' = k
    /\ last' = "other"
    /\ UNCHANGED <<fs, editDir, items, running, pinCheck, topMost, status, timerSet,
                   saved, cmpVars, scanVars>>

\* IDC_PIN, BN_CLICKED: the check box has toggled; ApplyPin follows it
PinClicked ==
    /\ running
    /\ pinCheck' = ~pinCheck
    /\ topMost' = ~pinCheck
    /\ last' = "other"
    /\ UNCHANGED <<fs, editDir, items, curSel, running, status, timerSet, saved, cmpVars, scanVars>>

\* a mutant of StatusText: the two texts exchanged
StatusTextSwapped(ec) == IF ec THEN "Success!" ELSE "Failed"

\* SetText(hDlg, IDC_STATUS, ec ? L"Failed" : L"Success!")
StatusText(ec) == IF ec THEN "Failed" ELSE "Success!"

\* IDOK
OnOK(ioFails, cfgOpens) ==
    /\ running
    /\ LET folder == editDir
           selectedFile == Selected
           copied == IF selectedFile # <<>> /\ EntryAt(fs, folder, selectedFile).kind # "none"
                       THEN CopyFile(fs, folder, selectedFile, ioFails)
                       ELSE [fs |-> fs, ec |-> TRUE]
       IN  /\ fs' = SaveConfig(copied.fs, folder, selectedFile, pinCheck, cfgOpens)
           /\ status' = StatusText(copied.ec)
           /\ saved' = IF cfgOpens
                         THEN [st |-> "clean", dir |-> folder, file |-> selectedFile,
                               pin |-> pinCheck]
                         ELSE saved
    /\ timerSet' = TRUE
    /\ last' = "confirm"
    /\ UNCHANGED <<editDir, items, curSel, running, pinCheck, topMost, cmpVars, scanVars>>

\* WM_TIMER, timer 1
OnTimer ==
    /\ running
    /\ timerSet
    /\ timerSet' = FALSE
    /\ status' = ""
    /\ last' = "other"
    /\ UNCHANGED <<fs, editDir, items, curSel, running, pinCheck, topMost, saved, cmpVars, scanVars>>

\* WM_CLOSE: EndDialog, and the process ends
OnClose ==
    /\ running
    /\ running' = FALSE
    /\ editDir' = <<>>
    /\ items' = <<>>
    /\ curSel' = 0
    /\ pinCheck' = FALSE
    /\ topMost' = FALSE
    /\ status' = ""
    /\ timerSet' = FALSE
    /\ last' = "other"
    /\ UNCHANGED <<fs, saved, cmpVars, scanVars>>

Touched == IF saved.st = "clean" THEN [saved EXCEPT !.st = "changed"] ELSE saved

\* another program deletes file n of the current directory
EnvDelete(n) ==
    /\ fs[DirA].entries[n].kind = "file"
    /\ fs' = [fs EXCEPT ![DirA].entries[n] = NoEntry]
    /\ saved' = Touched
    /\ last' = "other"
    /\ UNCHANGED <<editDir, items, curSel, running, pinCheck, topMost, status, timerSet,
                   cmpVars, scanVars>>

\* another program creates file n of the current directory
EnvCreate(n) ==
    /\ fs[DirA].entries[n].kind = "none"
    /\ fs' = [fs EXCEPT ![DirA].entries[n] = RegularFile(<<1>>)]
    /\ saved' = Touched
    /\ last' = "other"
    /\ UNCHANGED <<editDir, items, curSel, running, pinCheck, topMost, status, timerSet,
                   cmpVars, scanVars>>

Next ==
    \/ \E reads \in BOOLEAN : InitDialog(reads)
    \/ \E t \in FolderTexts : EditChange(t)
    \/ \E chosen \in {DirA, DirB} : BrowsePicked(chosen)
    \/ BrowseCancelled
    \/ \E k \in 1..Len(items) : SelectItem(k)
    \/ PinClicked
    \/ \E ioFails \in BOOLEAN, cfgOpens \in BOOLEAN : OnOK(ioFails, cfgOpens)
    \/ OnTimer
    \/ OnClose
    \/ \E n \in Movable : EnvDelete(n)
    \/ \E n \in Movable : EnvCreate(n)

Spec == DlgInit /\ [][Next]_vars

(***************************************************************************)
(* C1.  Promote overwrite: a confirm event with a listed candidate         *)
(* selected whose file exists, and whose copy meets no I/O error, shows    *)
(* "Success!" and leaves bf2savefile.sav with exactly the bytes of the     *)
(* chosen file, whatever it held before.                                   *)
(***************************************************************************)
C1_PromoteOverwrite ==
    [][\A ioFails \in BOOLEAN, cfgOpens \in BOOLEAN :
          ( /\ OnOK(ioFails, cfgOpens)
            /\ Selected # <<>>
            /\ EntryAt(fs, editDir, Selected).kind = "file"
            /\ ~ioFails )
          => /\ status' = "Success!"
             /\ EntryAt(fs', editDir, SavName)
                  = RegularFile(EntryAt(fs, editDir, Selected).data)]_vars

(***************************************************************************)
(* C2.  Numeric-run ordering: two digit runs are ordered by numeric        *)
(* magnitude first and, at equal magnitude, by run length, for runs of     *)
(* every length.                                                           *)
(***************************************************************************)
IsDigitRun(r) == r # <<>> /\ \A k \in 1..Len(r) : iswdigit(r[k])

RECURSIVE StripZeros(_)
StripZeros(r) == IF r # <<>> /\ Head(r) = 48 THEN StripZeros(Tail(r)) ELSE r

\* the magnitude of run p is smaller than that of run q
MagnitudeLess(p, q) ==
    LET a == StripZeros(p)
        b == StripZeros(q)
    IN  \/ Len(a) < Len(b)
        \/ /\ Len(a) = Len(b)
           /\ \E k \in 1..Len(a) : a[k] < b[k] /\ \A m \in 1..(k - 1) : a[m] = b[m]

C2_NumericRunOrdering ==
    (cres.done /\ IsDigitRun(cx) /\ IsDigitRun(cy)) =>
        (cres.ab <=> \/ MagnitudeLess(cx, cy)
                     \/ StripZeros(cx) = StripZeros(cy) /\ Len(cx) < Len(cy))

(***************************************************************************)
(* C3.  Prefix filter: after a scan the list holds, once each, exactly the *)
(* regular files of the directory whose name starts with "bf2savefile",    *)
(* and is empty for a path that is no readable directory.                  *)
(***************************************************************************)
StartsWithPrefix(name) ==
    \A k \in 1..Len(Prefix) : k <= Len(name) /\ name[k] = Prefix[k]

C3_PrefixFilter ==
    scanned =>
        IF IsDirectory(fs, editDir) /\ fs[editDir].open = "ok"
          THEN LET e == fs[editDir].entries
                   want == {n \in DOMAIN e : e[n].kind = "file" /\ StartsWithPrefix(n)}
               IN  Range(items) = want /\ Len(items) = Cardinality(want)
          ELSE items = <<>>

(***************************************************************************)
(* C4.  Promote failure: a confirm event with no selection, or with a      *)
(* selected name whose file is gone by then, shows "Failed" and creates or *)
(* modifies no file of the directory.                                      *)
(***************************************************************************)
NoSource == Selected = <<>> \/ EntryAt(fs, editDir, Selected).kind = "none"

\* C4 as stated: a confirm event without a source shows "Failed" and changes
\* no entry of the directory shown
C4_NoFileOfDirectoryTouched ==
    [][\A ioFails \in BOOLEAN, cfgOpens \in BOOLEAN :
          (OnOK(ioFails, cfgOpens) /\ NoSource)
          => /\ status' = "Failed"
             /\ IsDirectory(fs, editDir) => fs'[editDir] = fs[editDir]]_vars

\* C4 as amended: a confirm event without a source shows "Failed" and changes
\* no entry of any directory but the program's own config.txt
C4_OnlyConfigTouched ==
    [][\A ioFails \in BOOLEAN, cfgOpens \in BOOLEAN :
          (OnOK(ioFails, cfgOpens) /\ NoSource)
          => /\ status' = "Failed"
             /\ DOMAIN fs' = DOMAIN fs
             /\ \A d \in DOMAIN fs : \A n \in DOMAIN fs[d].entries :
                   (d # ExeDir \/ n # CfgName) => fs'[d].entries[n] = fs[d].entries[n]]_vars

\* C4 witness: just after a confirm event whose selected file had been deleted
\* since the scan
C4_Witness ==
    /\ last = "confirm"
    /\ status = "Failed"
    /\ Selected = NameU1
    /\ EntryAt(fs, editDir, Selected).kind = "none"
    /\ EntryAt(fs, editDir, SavName) = RegularFile(<<3>>)

(***************************************************************************)
(* C5.  Separator transparency: two names with the same sequence of        *)
(* maximal non-separator segments compare Equal, wherever their separators *)
(* stand, trailing ones included.                                          *)
(***************************************************************************)
RECURSIVE SegmentsFrom(_, _, _)
SegmentsFrom(s, k, cur) ==
    IF k > Len(s) THEN (IF cur = <<>> THEN <<>> ELSE <<cur>>)
    ELSE IF IsSep(s[k])
      THEN (IF cur = <<>> THEN <<>> ELSE <<cur>>) \o SegmentsFrom(s, k + 1, <<>>)
    ELSE SegmentsFrom(s, k + 1, Append(cur, s[k]))

Segments(s) == SegmentsFrom(s, 1, <<>>)

C5_SeparatorTransparency ==
    (cres.done /\ Segments(cx) = Segments(cy)) => (~cres.ab /\ ~cres.ba)

(***************************************************************************)
(* C6.  Stable ranking: the ranked list is a permutation of the scanned    *)
(* names, no later element is NaturalLess than an earlier one, and names   *)
(* that compare Equal keep the order the scanner gave them.                *)
(***************************************************************************)
IndexIn(q, x) == CHOOSE k \in 1..Len(q) : q[k] = x

C6_StableRanking ==
    scanned =>
        /\ Len(items) = Len(files)
        /\ Range(items) = Range(files)
        /\ \A i \in 1..Len(items) : \A j \in (i + 1)..Len(items) :
              /\ ~NaturalLess(items[j], items[i])
              /\ ~NaturalLess(items[i], items[j])
                   => IndexIn(files, items[i]) < IndexIn(files, items[j])

(***************************************************************************)
(* C7.  NaturalLess is a strict weak ordering over Names: irreflexive,     *)
(* asymmetric, transitive, and with a transitive incomparability relation. *)
(***************************************************************************)
Incomparable(x, y) == ~NaturalLess(x, y) /\ ~NaturalLess(y, x)

C7_StrictWeakOrdering ==
    cres.done =>
        /\ (cx = cy => ~cres.ab)
        /\ ~(cres.ab /\ cres.ba)
        /\ \A z \in Names :
              /\ (cres.ab /\ NaturalLess(cy, z)) => NaturalLess(cx, z)
              /\ (~cres.ab /\ ~cres.ba /\ Incomparable(cy, z)) => Incomparable(cx, z)

\* C7 witness: "a_1" has been compared with "A01": the first is less, though the names agree
\* up to case, a separator and a leading zero
C7_Witness ==
    /\ cres.done
    /\ cx = <<97, 95, 49>>
    /\ cy = <<65, 48, 49>>
    /\ cres.ab /\ ~cres.ba

(***************************************************************************)
(* C8.  Persistence round trip: after a confirm event saved (directory,    *)
(* fileName, pin) and with the directories unchanged since, the next       *)
(* start-up shows that directory, that selection and that pin state.       *)
(***************************************************************************)
\* C8 as stated: a start-up after a save shows the saved directory, selection and pin
C8_RoundTrip ==
    (last = "init-loaded" /\ saved.st = "clean") =>
        /\ editDir = saved.dir
        /\ Selected = saved.file
        /\ pinCheck = saved.pin

\* the first item of list that begins with text, ignoring case; 0 if none does
FirstMatch(list, text) ==
    LET hits == {k \in 1..Len(list) : BeginsNoCase(list[k], text)}
    IN  IF hits = {} THEN 0 ELSE CHOOSE k \in hits : \A m \in hits : k <= m

\* C8 as amended: what LoadConfig reads is what was saved; the pin state is restored;
\* the directory is restored unless it was saved empty, when the current directory
\* stays; the selection is the first listed item that begins with the saved name
C8_RoundTripAmended ==
    (last = "init-loaded" /\ saved.st # "none") =>
        /\ ParseConfig(CfgEntry(fs).data)
             = [folder |-> saved.dir, file |-> saved.file, pin |-> saved.pin]
        /\ pinCheck = saved.pin
        /\ topMost = saved.pin
        /\ editDir = (IF saved.dir # <<>> THEN saved.dir ELSE Cwd)
        /\ (saved.file # <<>> /\ FirstMatch(items, saved.file) # 0)
              => curSel = FirstMatch(items, saved.file)
        /\ (saved.file # <<>> /\ saved.file \in Range(items)
               /\ items[FirstMatch(items, saved.file)] = saved.file)
              => Selected = saved.file
        /\ (saved.file = <<>> \/ FirstMatch(items, saved.file) = 0)
              => curSel = FirstSel(items)

\* C8 witness: a start-up that restored the other directory, its second item and a set pin
C8_Witness ==
    /\ last = "init-loaded"
    /\ saved.st = "clean"
    /\ saved = [st |-> "clean", dir |-> DirB, file |-> SavName, pin |-> TRUE]
    /\ editDir = DirB
    /\ curSel = 2
    /\ Selected = SavName
    /\ pinCheck

(***************************************************************************)
(* C9.  State is persisted regardless of the copy outcome: after a confirm *)
(* event config.txt is exactly the three lines directory=, file=, pin=     *)
(* of that event.                                                          *)
(***************************************************************************)
ThreeLines(data, dir, file, pin) ==
    /\ GetLines(data, 1, <<>>)
         = << KeyDirectory \o ToUtf8(dir),
              KeyFile \o ToUtf8(file),
              KeyPin \o (IF pin THEN <<49>> ELSE <<48>>) >>
    /\ Len(data) = Len(KeyDirectory) + Len(ToUtf8(dir)) + Len(KeyFile) + Len(ToUtf8(file))
                     + Len(KeyPin) + 4

\* C9 as stated: just after every confirm event config.txt holds its three lines
C9_PersistedAfterConfirm ==
    last = "confirm" =>
        /\ CfgEntry(fs).kind = "file"
        /\ ThreeLines(CfgEntry(fs).data, editDir, Selected, pinCheck)

\* C9 as amended: at all times config.txt holds the three lines of the latest
\* confirm event at which it could be opened for writing
C9_PersistedWhenWritable ==
    saved.st # "none" =>
        /\ CfgEntry(fs).kind = "file"
        /\ ThreeLines(CfgEntry(fs).data, saved.dir, saved.file, saved.pin)

\* C9 witness: just after a confirm event whose copy failed and whose state went to config.txt,
\* over a config.txt written by hand
C9_Witness ==
    /\ last = "confirm"
    /\ status = "Failed"
    /\ saved = [st |-> "clean", dir |-> editDir, file |-> Selected, pin |-> pinCheck]
    /\ pinCheck
    /\ editDir = DirB
    /\ CfgEntry(fs) = RegularFile(ConfigText(DirB, Selected, TRUE))

(***************************************************************************)
(* C10.  Config write failure is reported: a confirm event during which    *)
(* config.txt cannot be opened for writing does not show plain success.    *)
(***************************************************************************)
C10_ConfigFailureReported ==
    [][\A ioFails \in BOOLEAN : OnOK(ioFails, FALSE) => status' # "Success!"]_vars

=============================================================================
